---- MODULE Spec2Model ----
(***************************************************************************)
(* Model of the closure-compilation rate limiter of                        *)
(* build-system/tasks/compile.js: the module-level queue and inProgress    *)
(* counter, closureCompile() with its inner start() and next(), the        *)
(* promise returned by compile(), and the two process.exit(1) paths.       *)
(*                                                                         *)
(* A job is named by its submission index: the n-th call of closureCompile *)
(* creates job n.  The queue holds the start-functions, one per job, so it *)
(* is a sequence of job indices.                                           *)
(***************************************************************************)
EXTENDS Integers, Sequences, FiniteSets

\* compile.js:34
MAX_PARALLEL_CLOSURE_INVOCATIONS == 4

\* Number of closureCompile calls explored.
MaxJobs == 6

Jobs == 1..MaxJobs

\* The `options` argument of closureCompile: nothing (undefined or null), or
\* an object, of which compile() is decided by three properties:
\* preventRemoveAndMakeDir (set or not), wrapper (a string or absent, or a
\* truthy value without replace(), such as a number) and extraGlobs (an array
\* or absent, or a truthy primitive, such as a string).
OptionValues ==
  {o \in [type : {"undefined", "object"},
          preventRemoveAndMakeDir : BOOLEAN,
          wrapper : {"none", "string", "number"},
          extraGlobs : {"none", "array", "string"}] :
     IF o.type = "undefined"
     THEN ~o.preventRemoveAndMakeDir /\ o.wrapper = "none"
          /\ o.extraGlobs = "none"
     ELSE o.wrapper # "none" /\ o.extraGlobs # "none"}

\* What the variable options[j] holds when no start-function of job j is in
\* the queue.
NoOptions ==
  [type |-> "none", preventRemoveAndMakeDir |-> FALSE, wrapper |-> "none",
   extraGlobs |-> "none"]

\* The `entryModuleFilename` argument of closureCompile: a file name (or an
\* array of them), or nothing.
EntryValues == {"string", "undefined"}

\* The argument lists a caller can pass to closureCompile, as
\* <<entryModuleFilename, options>>.
CallArguments == EntryValues \X OptionValues

\* The runtime token of ../internal-version: a production one, or one that
\* matches /development/.
TokenValues == {"prod", "development"}

\* The part of the file system compile() depends on: whether the directories
\* under build/ that cleanupBuildDir() makes exist, and whether the patched
\* copy of document-register-element exists in them.
FileSystems ==
  {f \in [dirs : BOOLEAN, patched : BOOLEAN] : f.patched => f.dirs}

VARIABLES
  queue,           \* compile.js:32  const queue = []
  inProgress,      \* compile.js:33  let inProgress = 0
  typecheck_only,  \* compile.js:18  argv.typecheck_only
  internalRuntimeToken,  \* compile.js:24
  fs,              \* the build/ directories and the patched module in them
  nsub,            \* number of closureCompile calls made so far
  entry,           \* entry[j], options[j]: the arguments the start-function
  options,         \*   of job j holds for compile() while it is in the queue
  compiled,        \* compiled[j]: state of the promise compile() returned
  stream,          \* stream[j]: which pipeline of job j's compile() is running
  microtasks,      \* promise reactions of compile().then(..) waiting to run
  promise,         \* promise[j]: state of the promise closureCompile returned
  starts,          \* log of start() invocations, in order
  completions,     \* log of resolve() calls of submitter promises, in order
  reports,         \* number of console.error reports written
  exited,          \* process.exit has been called
  exitCode         \* the status passed to process.exit

vars == <<queue, inProgress, typecheck_only, internalRuntimeToken, fs, nsub, entry, options, compiled, stream,
          microtasks, promise, starts, completions, reports, exited, exitCode>>

\* The mutable program state as one record, the value the handlers transform.
St ==
  [queue |-> queue, inProgress |-> inProgress, fs |-> fs, entry |-> entry,
   options |-> options, compiled |-> compiled, stream |-> stream,
   microtasks |-> microtasks, promise |-> promise,
   starts |-> starts, completions |-> completions, reports |-> reports,
   exited |-> exited, exitCode |-> exitCode]

SetSt(s) ==
  /\ queue' = s.queue
  /\ inProgress' = s.inProgress
  /\ fs' = s.fs
  /\ entry' = s.entry
  /\ options' = s.options
  /\ compiled' = s.compiled
  /\ stream' = s.stream
  /\ microtasks' = s.microtasks
  /\ promise' = s.promise
  /\ starts' = s.starts
  /\ completions' = s.completions
  /\ reports' = s.reports
  /\ exited' = s.exited
  /\ exitCode' = s.exitCode

\* cleanupBuildDir(): make build/cc, remove build/fake-module and
\* build/patched-module with all they hold, and make their directories anew.
cleanupBuildDir(f) ==
  [dirs |-> TRUE, patched |-> FALSE]

\* patchRegisterElement(): unless the patched copy exists, read the module
\* from node_modules and write the patched copy, which throws when its
\* directory is not there.  node_modules is installed: compile.js itself
\* loads its own dependencies from it (lines 18-29).
patchRegisterElement(f) ==
  IF f.patched THEN [threw |-> FALSE, fs |-> f]
  ELSE IF ~f.dirs THEN [threw |-> TRUE, fs |-> f]
  ELSE [threw |-> FALSE, fs |-> [f EXCEPT !.patched = TRUE]]

\* compile(): the state of the returned promise when compile() returns, and
\* the file system it leaves.  A throw inside the executor is turned into a
\* rejection by the Promise constructor; the executor, in this order,
\*   throws on options.checkTypes with options missing          (line 106)
\*   throws on entryModuleFilename.replace with no file name    (line 108)
\*   calls cleanupBuildDir() unless preventRemoveAndMakeDir     (line 111)
\*   throws on options.wrapper.replace, wrapper not a string    (line 119)
\*   calls patchRegisterElement(), which may throw              (line 122)
\*   throws on a runtime token matching /development/           (line 127)
\*   throws on srcs.push.apply with extraGlobs not an array     (line 213)
\* Otherwise the pipelines are set up and the promise is pending.  The
\* placeholder files written at line 234 go into directories that exist once
\* patchRegisterElement() has returned, and decide nothing.
compile(f, token, e, opts) ==
  IF opts.type = "undefined" THEN [promise |-> "rejected", fs |-> f]
  ELSE IF e = "undefined" THEN [promise |-> "rejected", fs |-> f]
  ELSE
    LET f1 == IF opts.preventRemoveAndMakeDir THEN f
              ELSE cleanupBuildDir(f)
        p == patchRegisterElement(f1)
    IN IF opts.wrapper = "number" THEN [promise |-> "rejected", fs |-> f1]
       ELSE IF p.threw THEN [promise |-> "rejected", fs |-> p.fs]
       ELSE IF token = "development"
            THEN [promise |-> "rejected", fs |-> p.fs]
       ELSE IF opts.extraGlobs = "string"
            THEN [promise |-> "rejected", fs |-> p.fs]
       ELSE [promise |-> "pending", fs |-> p.fs]

start_NoIncrement(s, j) ==
  LET r == compile(s.fs, internalRuntimeToken, s.entry[j], s.options[j])
      c == r.promise
  IN
  [s EXCEPT !.fs = r.fs,
            !.entry[j] = "none",
            !.options[j] = NoOptions,
            !.compiled[j] = c,
            !.stream[j] = IF c = "pending" THEN "output" ELSE @,
            !.microtasks = IF c = "rejected" THEN Append(@, j) ELSE @,
            !.starts = Append(@, [job |-> j, before |-> s.inProgress])]

\* start(): inProgress++, compile(...).then(onFulfilled, onRejected).
\* A promise that is already rejected queues its reaction at once; a pending
\* one has its compiler and output pipeline running.  The start-function has
\* left the queue, and with it the arguments it held.
start(s, j) ==
  LET r == compile(s.fs, internalRuntimeToken, s.entry[j], s.options[j])
      c == r.promise
  IN
  [s EXCEPT !.inProgress = @ + 1,
            !.fs = r.fs,
            !.entry[j] = "none",
            !.options[j] = NoOptions,
            !.compiled[j] = c,
            !.stream[j] = IF c = "pending" THEN "output" ELSE @,
            !.microtasks = IF c = "rejected" THEN Append(@, j) ELSE @,
            !.starts = Append(@, [job |-> j, before |-> s.inProgress])]

next_LE(s) ==
  IF Len(s.queue) = 0 THEN s
  ELSE IF s.inProgress <= MAX_PARALLEL_CLOSURE_INVOCATIONS
       THEN start([s EXCEPT !.queue = Tail(@)], Head(s.queue))
       ELSE s

next_LIFO(s) ==
  IF Len(s.queue) = 0 THEN s
  ELSE IF s.inProgress < MAX_PARALLEL_CLOSURE_INVOCATIONS
       THEN start([s EXCEPT !.queue = SubSeq(@, 1, Len(@) - 1)],
                  s.queue[Len(s.queue)])
       ELSE s

next_NoShift(s) ==
  IF Len(s.queue) = 0 THEN s
  ELSE IF s.inProgress < MAX_PARALLEL_CLOSURE_INVOCATIONS
       THEN start(s, Head(s.queue))
       ELSE s

\* next(): start the front of the queue if there is one and a slot is free.
next(s) ==
  IF Len(s.queue) = 0 THEN s
  ELSE IF s.inProgress < MAX_PARALLEL_CLOSURE_INVOCATIONS
       THEN start([s EXCEPT !.queue = Tail(@)], Head(s.queue))
       ELSE s

\* The advance step as the specification words it: while the queue is
\* non-empty and a slot is free, pop the front and invoke its start-function.
RECURSIVE advance(_)
advance(s) ==
  IF Len(s.queue) > 0 /\ s.inProgress < MAX_PARALLEL_CLOSURE_INVOCATIONS
  THEN advance(start([s EXCEPT !.queue = Tail(@)], Head(s.queue)))
  ELSE s

\* resolve(): settle the promise closureCompile returned for job j.
resolve(s, j) ==
  [s EXCEPT !.promise[j] = "resolved",
            !.completions = Append(@, [job |-> j,
                                       inProgress |-> s.inProgress,
                                       nstarts |-> Len(s.starts)])]

closureCompile_NoNext(s, j, e, opts) ==
  [s EXCEPT !.entry[j] = e,
            !.options[j] = opts,
            !.promise[j] = "pending",
            !.queue = Append(@, j)]

\* closureCompile(): new Promise(...) whose executor pushes start and
\* calls next().
closureCompile(s, j, e, opts) ==
  next([s EXCEPT !.entry[j] = e,
                 !.options[j] = opts,
                 !.promise[j] = "pending",
                 !.queue = Append(@, j)])

onFulfilled_NoDecrement(s, j) ==
  resolve(next(s), j)

onFulfilled_ResolveLastStarted(s, j) ==
  LET t == next([s EXCEPT !.inProgress = @ - 1]) IN
  resolve(t, t.starts[Len(t.starts)].job)

onFulfilled_NoNext(s, j) ==
  resolve([s EXCEPT !.inProgress = @ - 1], j)

onFulfilled_ResolveFirst(s, j) ==
  next([resolve(s, j) EXCEPT !.inProgress = @ - 1])

\* The success callback of compile().then: inProgress--; next(); resolve().
onFulfilled(s, j) ==
  resolve(next([s EXCEPT !.inProgress = @ - 1]), j)

onRejected_NoExit(s, j) ==
  [s EXCEPT !.reports = @ + 1]

onRejected_Recover(s, j) ==
  [next([s EXCEPT !.inProgress = @ - 1])
     EXCEPT !.reports = @ + 1, !.exited = TRUE, !.exitCode = 1]

\* The failure callback of compile().then: console.error; process.exit(1).
onRejected(s, j) ==
  [s EXCEPT !.reports = @ + 1, !.exited = TRUE, !.exitCode = 1]

\* The 'end' listener of the output pipeline: start copying the source map.
onOutputEnd(s, j) ==
  [s EXCEPT !.stream[j] = "sourcemap"]

\* The 'end' listener of the source-map pipeline: resolve of compile()'s
\* promise, which queues the reaction start() registered with then().
onSourceMapEnd(s, j) ==
  [s EXCEPT !.stream[j] = "ended",
            !.compiled[j] = "fulfilled",
            !.microtasks = Append(@, j)]

onStreamError_NoExit(s, j) ==
  [s EXCEPT !.reports = @ + 1]

\* The 'error' listener on the compiler stream inside compile():
\* console.error; process.exit(1).
onStreamError(s, j) ==
  [s EXCEPT !.reports = @ + 1, !.exited = TRUE, !.exitCode = 1]

----------------------------------------------------------------------------

Init ==
  /\ queue = <<>>
  /\ inProgress = 0
  /\ typecheck_only \in BOOLEAN
  /\ internalRuntimeToken \in TokenValues
  /\ fs \in FileSystems
  /\ nsub = 0
  /\ entry = [j \in Jobs |-> "none"]
  /\ options = [j \in Jobs |-> NoOptions]
  /\ compiled = [j \in Jobs |-> "none"]
  /\ stream = [j \in Jobs |-> "none"]
  /\ microtasks = <<>>
  /\ promise = [j \in Jobs |-> "none"]
  /\ starts = <<>>
  /\ completions = <<>>
  /\ reports = 0
  /\ exited = FALSE
  /\ exitCode = 0

\* A caller invokes closureCompile(entryModuleFilename, .., .., options).
ClosureCompile(e, opts) ==
  /\ ~exited
  /\ nsub < MaxJobs
  /\ nsub' = nsub + 1
  /\ SetSt(closureCompile(St, nsub + 1, e, opts))
  /\ UNCHANGED <<typecheck_only, internalRuntimeToken>>

\* A caller invokes the exported cleanupBuildDir().
CleanupBuildDir ==
  /\ ~exited
  /\ fs' = cleanupBuildDir(fs)
  /\ UNCHANGED <<queue, inProgress, typecheck_only, internalRuntimeToken,
                 nsub, entry, options, compiled, stream,
                 microtasks, promise, starts, completions, reports, exited,
                 exitCode>>

\* The output pipeline of job j (rename, replace, shortenLicense, gulp.dest)
\* emits 'end': its listener starts the pipeline that copies the source map.
\* The listener is attached only when argv.typecheck_only is not set.
OutputEnd(j) ==
  /\ ~exited
  /\ ~typecheck_only
  /\ stream[j] = "output"
  /\ SetSt(onOutputEnd(St, j))
  /\ UNCHANGED <<typecheck_only, internalRuntimeToken, nsub>>

\* The source-map pipeline of job j emits 'end', whose listener is resolve.
SourceMapEnd(j) ==
  /\ ~exited
  /\ stream[j] = "sourcemap"
  /\ SetSt(onSourceMapEnd(St, j))
  /\ UNCHANGED <<typecheck_only, internalRuntimeToken, nsub>>

\* The compiler stream of a running compile() emits 'error'.
StreamError(j) ==
  /\ ~exited
  /\ compiled[j] = "pending"
  /\ SetSt(onStreamError(St, j))
  /\ UNCHANGED <<typecheck_only, internalRuntimeToken, nsub>>

\* The event loop runs the oldest waiting reaction of compile().then(..).
RunFulfilled ==
  /\ ~exited
  /\ Len(microtasks) > 0
  /\ compiled[Head(microtasks)] = "fulfilled"
  /\ SetSt(onFulfilled([St EXCEPT !.microtasks = Tail(@)], Head(microtasks)))
  /\ UNCHANGED <<typecheck_only, internalRuntimeToken, nsub>>

RunRejected ==
  /\ ~exited
  /\ Len(microtasks) > 0
  /\ compiled[Head(microtasks)] = "rejected"
  /\ SetSt(onRejected([St EXCEPT !.microtasks = Tail(@)], Head(microtasks)))
  /\ UNCHANGED <<typecheck_only, internalRuntimeToken, nsub>>

Next ==
  \/ \E a \in CallArguments : ClosureCompile(a[1], a[2])
  \/ CleanupBuildDir
  \/ \E j \in Jobs : OutputEnd(j)
  \/ \E j \in Jobs : SourceMapEnd(j)
  \/ \E j \in Jobs : StreamError(j)
  \/ RunFulfilled
  \/ RunRejected

Spec == Init /\ [][Next]_vars

\* The event loop runs every queued reaction, and a pipeline that is running
\* (the output one, then the source-map one) ends; callers are free to stop
\* submitting.
FairSpec ==
  /\ Spec
  /\ WF_vars(RunFulfilled)
  /\ WF_vars(RunRejected)
  /\ \A j \in Jobs : WF_vars(OutputEnd(j))
  /\ \A j \in Jobs : WF_vars(SourceMapEnd(j))

----------------------------------------------------------------------------
\* Derived notions used by the properties.

InQueue(j) == \E i \in 1..Len(queue) : queue[i] = j

QueueCount(j) == Cardinality({i \in 1..Len(queue) : queue[i] = j})

StartCount(j) == Cardinality({i \in 1..Len(starts) : starts[i].job = j})

CompletionCount(j) ==
  Cardinality({i \in 1..Len(completions) : completions[i].job = j})

Started(j) == \E i \in 1..Len(starts) : starts[i].job = j

Completed(j) == \E i \in 1..Len(completions) : completions[i].job = j

TypeOK ==
  /\ queue \in Seq(Jobs)
  /\ inProgress \in Int
  /\ typecheck_only \in BOOLEAN
  /\ nsub \in 0..MaxJobs
  /\ internalRuntimeToken \in TokenValues
  /\ fs \in FileSystems
  /\ entry \in [Jobs -> EntryValues \cup {"none"}]
  /\ options \in [Jobs -> OptionValues \cup {NoOptions}]
  /\ stream \in [Jobs -> {"none", "output", "sourcemap", "ended"}]
  /\ compiled \in [Jobs -> {"none", "pending", "fulfilled", "rejected"}]
  /\ microtasks \in Seq(Jobs)
  /\ promise \in [Jobs -> {"none", "pending", "resolved", "rejected"}]
  /\ reports \in Nat
  /\ exited \in BOOLEAN
  /\ exitCode \in {0, 1}

InMicrotasks(j) == \E i \in 1..Len(microtasks) : microtasks[i] = j

\* The argument next() receives inside closureCompile: the pushed state.
PushArg(e, opts) ==
  [St EXCEPT !.entry[nsub + 1] = e,
             !.options[nsub + 1] = opts,
             !.promise[nsub + 1] = "pending",
             !.queue = Append(@, nsub + 1)]

\* The argument next() receives inside the success callback.
DecArg ==
  [St EXCEPT !.microtasks = Tail(@), !.inProgress = @ - 1]

----------------------------------------------------------------------------
\* C1: inProgress never exceeds MAX_PARALLEL_CLOSURE_INVOCATIONS, and every
\* start-function was invoked with inProgress below that limit just before
\* the invocation.
C1_BoundRespected ==
  /\ inProgress <= MAX_PARALLEL_CLOSURE_INVOCATIONS
  /\ \A i \in 1..Len(starts) :
       starts[i].before < MAX_PARALLEL_CLOSURE_INVOCATIONS

\* All slots are taken, a job waits, and a freed slot has been reused.
C1_Witness ==
  /\ inProgress = MAX_PARALLEL_CLOSURE_INVOCATIONS
  /\ Len(queue) > 0
  /\ Len(starts) > MAX_PARALLEL_CLOSURE_INVOCATIONS

\* C2: jobs start in submission order: the i-th start() invocation is the
\* one of the i-th submitted job, so no job starts before an earlier one.
C2_FifoStartOrder ==
  \A i \in 1..Len(starts) : starts[i].job = i

\* Two jobs waited in the queue together and both have been started since.
C2_Witness ==
  /\ Len(starts) >= MAX_PARALLEL_CLOSURE_INVOCATIONS + 2
  /\ Len(completions) = 2
  /\ nsub = MAX_PARALLEL_CLOSURE_INVOCATIONS + 2
  /\ completions[1].nstarts = MAX_PARALLEL_CLOSURE_INVOCATIONS + 1

\* C3: eventual admission: unless a job fails, a queued job is eventually
\* started.
C3_EventualAdmission ==
  \A j \in Jobs : InQueue(j) ~> (Started(j) \/ reports > 0)

\* Eventual admission when compile() writes its output (no typecheck_only).
AdmissionWhenOutputWritten ==
  \A j \in Jobs :
    (InQueue(j) /\ ~typecheck_only) ~> (Started(j) \/ reports > 0)

\* C4: the promise closureCompile returned for job j becomes resolved only
\* in the success callback of job j's own compile(), after j was started and
\* its compile() promise was fulfilled; while j is queued or running it is
\* pending.
C4_OwnPromiseOnly ==
  [][\A j \in Jobs :
       /\ (promise[j] # "resolved" /\ promise'[j] = "resolved")
            => /\ Len(microtasks) > 0
               /\ Head(microtasks) = j
               /\ compiled[j] = "fulfilled"
               /\ Started(j)
       /\ (InQueue(j)' \/ compiled'[j] = "pending" \/ InMicrotasks(j)')
            => promise'[j] = "pending"]_vars

\* A job's promise is resolved while an earlier-started job is still running
\* and a later one is queued or running.
C4_Witness ==
  \E j \in Jobs :
    /\ promise[j] = "resolved"
    /\ \E k \in Jobs : k < j /\ compiled[k] = "pending"
                       /\ promise[k] = "pending"
    /\ \E k \in Jobs : k > j /\ promise[k] = "pending"

\* C5 as stated: once the compile() of a job has rejected, inProgress, the
\* queue, the started jobs and the submitter promises never change again.
C5_NothingAfterRejection ==
  [][(\E j \in Jobs : compiled[j] = "rejected") =>
       UNCHANGED <<queue, inProgress, starts, promise, completions>>]_vars

\* C5: the failure callback of a rejected job waits among the promise
\* reactions until the process exits; the step that takes it from there
\* writes one report and exits with status 1; a report is never written
\* without that exit; and once the process has exited the queue, inProgress,
\* the started jobs and the submitter promises never change.
C5_FailureStopsEverything ==
  [][/\ \A j \in Jobs :
          (compiled'[j] = "rejected" /\ ~exited') => InMicrotasks(j)'
     /\ (/\ Len(microtasks) > 0
         /\ compiled[Head(microtasks)] = "rejected"
         /\ microtasks' = Tail(microtasks))
          => (reports' = reports + 1 /\ exited' /\ exitCode' = 1)
     /\ (reports' > 0 => (exited' /\ exitCode' = 1))
     /\ (exited =>
           UNCHANGED <<queue, inProgress, starts, promise, completions>>)]_vars

\* The process exited on the failure callback of a rejected job, and between
\* the rejection and the exit a success callback queued earlier started a
\* later job and resolved its promise, while another job is still compiling.
C5_Witness ==
  /\ exited
  /\ reports = 1
  /\ \E j \in Jobs :
       /\ compiled[j] = "rejected"
       /\ ~InMicrotasks(j)
       /\ \E i \in 1..Len(completions) :
            /\ completions[i].nstarts > j
            /\ promise[completions[i].job] = "resolved"
  /\ \E j \in Jobs : compiled[j] = "pending"

\* C6: a failure is not delivered through the submitter's promise: the
\* promise of a job whose compile() rejected stays pending, no submitter
\* promise is ever rejected, and the step that reports the failure leaves
\* inProgress, the queue, the started jobs and all submitter promises alone
\* and exits with status 1.
C6_FailureOutOfBand ==
  [][/\ \A j \in Jobs :
          /\ compiled'[j] = "rejected" => promise'[j] = "pending"
          /\ promise'[j] # "rejected"
     /\ (reports' > reports =>
           /\ inProgress' = inProgress
           /\ queue' = queue
           /\ starts' = starts
           /\ promise' = promise
           /\ completions' = completions
           /\ exited'
           /\ exitCode' = 1)]_vars

\* A success callback took a job from the queue whose compile() rejected and
\* then resolved its own promise; the failure callback of the rejected job
\* has run, its promise is pending and it still counts in inProgress.
C6_Witness ==
  /\ reports = 1
  /\ exitCode = 1
  /\ Len(completions) = 1
  /\ completions[1].nstarts = MAX_PARALLEL_CLOSURE_INVOCATIONS + 1
  /\ promise[completions[1].job] = "resolved"
  /\ compiled[MAX_PARALLEL_CLOSURE_INVOCATIONS + 1] = "rejected"
  /\ promise[MAX_PARALLEL_CLOSURE_INVOCATIONS + 1] = "pending"
  /\ ~InMicrotasks(MAX_PARALLEL_CLOSURE_INVOCATIONS + 1)
  /\ inProgress = MAX_PARALLEL_CLOSURE_INVOCATIONS

\* C7: a closureCompile call made with a free slot starts the submitted job
\* itself and raises inProgress by one, leaving the queue as it was; a call
\* made with no free slot appends the job to the queue and changes neither
\* inProgress nor the started jobs.
C7_SubmitStartsOrQueues ==
  [][nsub' = nsub + 1 =>
       IF inProgress < MAX_PARALLEL_CLOSURE_INVOCATIONS
       THEN /\ starts' = Append(starts, [job |-> nsub',
                                         before |-> inProgress])
            /\ inProgress' = inProgress + 1
            /\ queue' = queue
       ELSE /\ queue' = Append(queue, nsub')
            /\ inProgress' = inProgress
            /\ starts' = starts]_vars

\* A job was queued on submission and a later one started on submission.
C7_Witness ==
  /\ nsub = MaxJobs
  /\ Len(completions) >= 3
  /\ completions[1].nstarts = MAX_PARALLEL_CLOSURE_INVOCATIONS + 1
  /\ starts[Len(starts)].job = MaxJobs
  /\ starts[Len(starts)].before < MAX_PARALLEL_CLOSURE_INVOCATIONS - 1

\* C8: a successful completion lowers inProgress by one and, if a job is
\* queued, starts exactly the queue front in the same step.
C8_CompletionRestoresCapacity ==
  [][Len(completions') = Len(completions) + 1 =>
       IF Len(queue) > 0
       THEN /\ inProgress' = inProgress
            /\ queue' = Tail(queue)
            /\ starts' = Append(starts, [job |-> Head(queue),
                                         before |-> inProgress - 1])
       ELSE /\ inProgress' = inProgress - 1
            /\ queue' = queue
            /\ starts' = starts]_vars

\* One completion started a queued job and a later one found the queue empty.
C8_Witness ==
  /\ Len(completions) >= 2
  /\ completions[1].nstarts = MAX_PARALLEL_CLOSURE_INVOCATIONS + 1
  /\ completions[Len(completions)].inProgress
       < MAX_PARALLEL_CLOSURE_INVOCATIONS

\* C9: next() called with an empty queue or with all slots taken returns the
\* state unchanged: in the state between handlers, on the state closureCompile
\* passes it after the push, and on the state the success callback passes it
\* after the decrement.
C9_IdempotentAdvance ==
  /\ (Len(queue) = 0 \/ inProgress = MAX_PARALLEL_CLOSURE_INVOCATIONS)
       => next(St) = St
  /\ (inProgress = MAX_PARALLEL_CLOSURE_INVOCATIONS /\ nsub < MaxJobs)
       => \A a \in CallArguments :
            next(PushArg(a[1], a[2])) = PushArg(a[1], a[2])
  /\ (/\ Len(microtasks) > 0
      /\ compiled[Head(microtasks)] = "fulfilled"
      /\ Len(queue) = 0)
       => next(DecArg) = DecArg

\* next() was called with all slots taken and a job waiting.
C9_Witness ==
  /\ inProgress = MAX_PARALLEL_CLOSURE_INVOCATIONS
  /\ Len(queue) = 2
  /\ completions = <<>>

\* C10: every submitted job is exactly once in the queue or in the log of
\* starts, never both and never twice, completes at most once and only after
\* starting; so it is in exactly one of queued, running, completed.
C10_StartedAtMostOnce ==
  \A j \in Jobs :
    IF j <= nsub
    THEN /\ QueueCount(j) + StartCount(j) = 1
         /\ CompletionCount(j) <= StartCount(j)
         /\ (IF InQueue(j) THEN 1 ELSE 0)
              + (IF Started(j) /\ ~Completed(j) THEN 1 ELSE 0)
              + (IF Completed(j) THEN 1 ELSE 0) = 1
    ELSE QueueCount(j) + StartCount(j) + CompletionCount(j) = 0

\* A job that waited in the queue has been started and has completed.
C10_Witness ==
  \E j \in Jobs :
    /\ j > MAX_PARALLEL_CLOSURE_INVOCATIONS
    /\ Completed(j)
    /\ ~InQueue(j)
    /\ \E k \in Jobs : Started(k) /\ ~Completed(k)

\* Position of job j in the log of starts (0 when it has not started).
StartPos(j) ==
  IF Started(j)
  THEN CHOOSE i \in 1..Len(starts) : starts[i].job = j
  ELSE 0

\* Jobs that have been started and whose submitter promise is not resolved.
RunningJobs == {j \in Jobs : Started(j) /\ ~Completed(j)}

----------------------------------------------------------------------------
\* C11: between handlers a job waits in the queue only when all slots are
\* taken, and next() returns the same state as the looping advance step: in
\* the state between handlers, on the state closureCompile passes it after
\* the push, and on the state the success callback passes it after the
\* decrement.
C11_NoJobWaitsWhileSlotFree ==
  /\ Len(queue) > 0 => inProgress = MAX_PARALLEL_CLOSURE_INVOCATIONS
  /\ next(St) = advance(St)
  /\ nsub < MaxJobs
       => \A a \in CallArguments :
            next(PushArg(a[1], a[2])) = advance(PushArg(a[1], a[2]))
  /\ (Len(microtasks) > 0 /\ compiled[Head(microtasks)] = "fulfilled")
       => next(DecArg) = advance(DecArg)

\* A completion found two jobs waiting and started one of them; the other
\* still waits with all slots taken.
C11_Witness ==
  /\ Len(completions) = 1
  /\ Len(queue) = 1
  /\ Len(starts) = MAX_PARALLEL_CLOSURE_INVOCATIONS + 1
  /\ inProgress = MAX_PARALLEL_CLOSURE_INVOCATIONS

\* C12: the success callback decrements, advances, then resolves: the values
\* of inProgress and of the number of started jobs seen at resolve() are
\* those the step ends with, so a queued job was already started and counted.
C12_ResolveAfterAdvance ==
  [][Len(completions') = Len(completions) + 1 =>
       LET c == completions'[Len(completions')] IN
       /\ c.inProgress = inProgress'
       /\ c.nstarts = Len(starts')
       /\ IF Len(queue) > 0
          THEN /\ c.nstarts = Len(starts) + 1
               /\ c.inProgress = inProgress
               /\ starts'[c.nstarts].job = Head(queue)
          ELSE /\ c.nstarts = Len(starts)
               /\ c.inProgress = inProgress - 1]_vars

\* A promise was resolved after its callback started a queued job, and a
\* later one was resolved by a callback that found the queue empty.
C12_Witness ==
  /\ Len(completions) >= 2
  /\ completions[1].nstarts = MAX_PARALLEL_CLOSURE_INVOCATIONS + 1
  /\ completions[1].inProgress = MAX_PARALLEL_CLOSURE_INVOCATIONS
  /\ completions[Len(completions)].inProgress = 0

\* C13: before the process terminates inProgress is the number of jobs that
\* have started and have not completed successfully, and it is not negative.
C13_CounterAccurate ==
  ~exited => /\ inProgress = Cardinality(RunningJobs)
             /\ inProgress >= 0

\* The counter went up to the limit and came down again by completions.
C13_Witness ==
  /\ ~exited
  /\ Len(completions) >= 3
  /\ inProgress = 2
  /\ Len(starts) = MaxJobs

\* C14: each of the first K submitted jobs is started within its own
\* closureCompile call, and a job i > K has started only if at least i - K
\* earlier jobs have completed successfully.
C14_StartsAfterEnoughCompletions ==
  \A j \in Jobs :
    /\ (j <= nsub /\ j <= MAX_PARALLEL_CLOSURE_INVOCATIONS) => Started(j)
    /\ (Started(j) /\ j > MAX_PARALLEL_CLOSURE_INVOCATIONS)
         => Cardinality({k \in 1..(j - 1) : Completed(k)})
              >= j - MAX_PARALLEL_CLOSURE_INVOCATIONS

\* The last job has started with exactly the completions it needed.
C14_Witness ==
  /\ Started(MaxJobs)
  /\ Len(completions) = MaxJobs - MAX_PARALLEL_CLOSURE_INVOCATIONS
  /\ \A i \in 1..Len(completions) : completions[i].job < MaxJobs

\* C15: at most one error report is ever written.
C15_SingleReport ==
  reports <= 1

\* The process exited on the first report while a second failed job's
\* reaction was still waiting, other jobs were in flight and one was queued.
C15_Witness ==
  /\ reports = 1
  /\ exited
  /\ Len(microtasks) > 0
  /\ compiled[Head(microtasks)] = "rejected"
  /\ \E j \in Jobs : compiled[j] = "pending"
  /\ Len(queue) > 0

\* Job j had its submitter promise resolved before an earlier-started job k.
ResolvedBeforeEarlier(j, k) ==
  /\ Started(j) /\ Started(k)
  /\ StartPos(k) < StartPos(j)
  /\ \E i \in 1..Len(completions) :
       /\ completions[i].job = j
       /\ \A h \in 1..i : completions[h].job # k

\* Some job had its submitter promise resolved before an earlier-started one:
\* the job of the i-th completion started at position q, and the job started
\* at an earlier position p is not among the first i completions.
OutOfOrderCompletion ==
  \E i \in 1..Len(completions) :
    \E q \in 1..Len(starts) :
      /\ starts[q].job = completions[i].job
      /\ \E p \in 1..(q - 1) :
           \A h \in 1..i : completions[h].job # starts[p].job

\* C16: in every state in which some job completed before a job started
\* earlier, the bound, the FIFO start order and the accuracy of the counter
\* hold.
C16_InvariantsUnderOutOfOrderCompletion ==
  OutOfOrderCompletion =>
    /\ inProgress <= MAX_PARALLEL_CLOSURE_INVOCATIONS
    /\ \A i \in 1..Len(starts) : starts[i].job = i
    /\ inProgress = Cardinality(RunningJobs)

\* The fourth started job completed first, the first started job completed
\* after it, queued jobs were started meanwhile, and the process still runs.
C16_Witness ==
  /\ ~exited
  /\ Len(completions) >= 2
  /\ ResolvedBeforeEarlier(completions[1].job, completions[2].job)
  /\ completions[1].job = MAX_PARALLEL_CLOSURE_INVOCATIONS
  /\ completions[2].job = 1
  /\ Len(starts) > MAX_PARALLEL_CLOSURE_INVOCATIONS

====
